---- MODULE Spec2Model ----
(***************************************************************************)
(* Model of the fuel-station retrieval-and-ranking engine                  *)
(*   src/GasStationfinder/fuel_advisor_demo_haversine.py  (main,           *)
(*   _build_query, rank_stations, weights_for, normalize, parse_price)     *)
(* and of the response id disambiguation                                   *)
(*   src/apisetting/.venv/api_main.py  (ensure_unique_ids).                *)
(*                                                                         *)
(* Representation                                                          *)
(*  - text is a sequence of one-character strings, so that lower-casing,   *)
(*    trimming, substring search and price parsing are computed;           *)
(*  - a price is an integer number of cents, or Inf (float("inf"));        *)
(*  - an absent text (None, a missing key) is the empty text: the code     *)
(*    reads both alike (`if q.brand`, item.get("id", ""), parse_price);    *)
(*  - latitudes lie on the user's meridian and are counted in arcs of a    *)
(*    tenth of a mile, where the haversine distance is exactly             *)
(*    |lat2 - lat1| tenths of a mile; distances and max_distance are in    *)
(*    tenths of a mile; NaN is a missing / non-numeric coordinate;         *)
(*  - weights are counted in twentieths, urgency and comfort scale in      *)
(*    tenths; a score is the exact rational value of the float expression, *)
(*    kept as an integer numerator over a denominator common to the rows   *)
(*    of one call, or NaN.                                                 *)
(***************************************************************************)
EXTENDS Integers, Sequences, FiniteSets, TLC

VARIABLES
    pc,         \* position of the run: the call to come, or the call that returned
    args,       \* the raw arguments of the call (main, weights_for, normalize)
    ret,        \* the value a pure function returned (weights_for, normalize), the
                \* column a configuration error of main names
    df,         \* the station table handed to rank_stations (sequence of rows)
    q,          \* the Query
    top_k,      \* the requested number of results
    filtered,   \* rank_stations' frame `out` after the FILTERS block (line 155)
    ranked,     \* the frame rank_stations returns
    stages,     \* the steps of rank_stations that ran, in order
    outcome,    \* "none" | "ok" | "error" (an exception left rank_stations) |
                \* "exit" (SystemExit left main)
    items,      \* the result items handed to / returned by ensure_unique_ids
    calls,      \* the requests the /recommend endpoint is serving: for each its
                \* payload, its position and its local variables
    results_file \* OUT_JSON_PATH: the request that wrote it last and its content

vars == <<pc, args, ret, df, q, top_k, filtered, ranked, stages, outcome, items,
          calls, results_file>>

(***************************************************************************)
(* Bounds of the model.                                                    *)
(***************************************************************************)
MaxRows == 2
MaxTop == 2
MaxItems == 3
MaxCalls == 2

(***************************************************************************)
(* Values.                                                                 *)
(***************************************************************************)
Inf == 1000000      \* float("inf") as a price in cents: above every parsed price
NaN == -1000000     \* a coordinate pd.to_numeric(errors="coerce") could not read

Min2(a, b) == IF a <= b THEN a ELSE b
Max2(a, b) == IF a >= b THEN a ELSE b
Abs(x) == IF x < 0 THEN -x ELSE x

(***************************************************************************)
(* Text: str.lower, str.strip, substring search.                           *)
(***************************************************************************)
UpperCase == <<"A","B","C","D","E","F","G","H","I","J","K","L","M",
               "N","O","P","Q","R","S","T","U","V","W","X","Y","Z">>
LowerCase == <<"a","b","c","d","e","f","g","h","i","j","k","l","m",
               "n","o","p","q","r","s","t","u","v","w","x","y","z">>

LowerChar(c) ==
    IF \E i \in 1..26 : UpperCase[i] = c
    THEN LowerCase[CHOOSE i \in 1..26 : UpperCase[i] = c]
    ELSE c

\* the characters of the model's texts, and str.lower on them, tabulated
Chars ==
    {UpperCase[i] : i \in 1..26} \cup {LowerCase[i] : i \in 1..26}
        \cup {" ", "$", ".", ",", "/", "-", "0", "1", "2", "3", "4", "5", "6", "7", "8", "9"}
LowerTable == [c \in Chars |-> LowerChar(c)]

Lower(s) == [i \in 1..Len(s) |-> LowerTable[s[i]]]

IsSpace(c) == c = " "

RECURSIVE LStrip(_)
LStrip(s) == IF s # <<>> /\ IsSpace(Head(s)) THEN LStrip(Tail(s)) ELSE s

RECURSIVE RStrip(_)
RStrip(s) ==
    IF s # <<>> /\ IsSpace(s[Len(s)]) THEN RStrip(SubSeq(s, 1, Len(s) - 1)) ELSE s

Strip(s) == RStrip(LStrip(s))

\* re.search(re.escape(sub), s) is not None: sub occurs in s literally
Contains(s, sub) ==
    \E i \in 0..(Len(s) - Len(sub)) : SubSeq(s, i + 1, i + Len(sub)) = sub

\* the mode and priority names of a Query, as text
TextOf ==
    [emergency |-> <<"e","m","e","r","g","e","n","c","y">>,
     budget    |-> <<"b","u","d","g","e","t">>,
     comfort   |-> <<"c","o","m","f","o","r","t">>,
     cheapest  |-> <<"c","h","e","a","p","e","s","t">>,
     closest   |-> <<"c","l","o","s","e","s","t">>,
     balanced  |-> <<"b","a","l","a","n","c","e","d">>]

(***************************************************************************)
(* parse_price: first \d+(?:\.\d+)? token of the text with commas removed. *)
(* The value is returned in cents; the texts of the model carry at most    *)
(* two fractional digits.                                                  *)
(***************************************************************************)
DigitChars == <<"0","1","2","3","4","5","6","7","8","9">>
DigitSet == {DigitChars[i] : i \in 1..10}
DigitTable == [c \in DigitSet |-> (CHOOSE i \in 1..10 : DigitChars[i] = c) - 1]
IsDigit(c) == c \in DigitSet
DigitVal(c) == DigitTable[c]

RemoveCommas(s) == SelectSeq(s, LAMBDA c : c # ",")

\* last index of the run of digits that starts at i
RECURSIVE DigitRunEnd(_, _)
DigitRunEnd(s, i) ==
    IF i < Len(s) /\ IsDigit(s[i + 1]) THEN DigitRunEnd(s, i + 1) ELSE i

RECURSIVE DigitsValue(_, _, _)
DigitsValue(s, i, j) ==
    IF j < i THEN 0 ELSE DigitsValue(s, i, j - 1) * 10 + DigitVal(s[j])

FractionCents(s, i, j) ==
    DigitVal(s[i]) * 10 + (IF j > i THEN DigitVal(s[i + 1]) ELSE 0)

parse_price(x) ==
    LET s == RemoveCommas(Strip(x))
        ds == {i \in 1..Len(s) : IsDigit(s[i])}
    IN IF ds = {} THEN Inf
       ELSE LET i == CHOOSE a \in ds : \A b \in ds : a <= b
                j == DigitRunEnd(s, i)
                whole == DigitsValue(s, i, j) * 100
            IN IF j + 2 <= Len(s) /\ s[j + 1] = "." /\ IsDigit(s[j + 2])
               THEN whole + FractionCents(s, j + 2, DigitRunEnd(s, j + 2))
               ELSE whole

(***************************************************************************)
(* haversine_miles on one meridian: a = sin^2(dlat/2), c = |dlat|,         *)
(* distance = R * |dlat|; the latitude unit is the arc of 0.1 mile, the    *)
(* distance unit 0.1 mile.                                                 *)
(***************************************************************************)
haversine_miles(lat1, lon1, lat2, lon2) == Abs(lat2 - lat1)

(***************************************************************************)
(* weights_for: base weights of the mode, nudged by the priority, clamped  *)
(* at 0 and renormalised; mode and priority are texts, lower-cased first.  *)
(* Weights are numerators in twentieths (0.25 = 5); `den` is the sum s the *)
(* code divides by, so weight k is w[k] / w.den: the value of the          *)
(* computation in exact arithmetic.                                        *)
(***************************************************************************)
\* the weights of budget mode whatever the mode
BaseWeightsOfBudget(mode) ==
    [price |-> 13, distance |-> 7, amenity |-> 0, brand |-> 0, urgency |-> 0]

BaseWeights(mode) ==
    CASE mode = TextOf.emergency ->
           [price |-> 5, distance |-> 11, amenity |-> 0, brand |-> 0, urgency |-> 4]
      [] mode = TextOf.budget ->
           [price |-> 13, distance |-> 7, amenity |-> 0, brand |-> 0, urgency |-> 0]
      [] mode = TextOf.comfort ->
           [price |-> 7, distance |-> 6, amenity |-> 5, brand |-> 2, urgency |-> 0]
      [] OTHER ->
           [price |-> 9, distance |-> 9, amenity |-> 0, brand |-> 0, urgency |-> 2]

\* the priority without effect on the weights
NudgedNot(w, priority) == w

Nudged(w, priority) ==
    CASE priority = TextOf.cheapest ->
           [w EXCEPT !.price = @ + 3, !.distance = @ - 2]
      [] priority = TextOf.closest ->
           [w EXCEPT !.distance = @ + 3, !.price = @ - 2]
      [] OTHER -> w

weights_for(mode, priority) ==
    LET n == Nudged(BaseWeights(Lower(mode)), Lower(priority))
        w == [k \in DOMAIN n |-> Max2(0, n[k])]
        s == w.price + w.distance + w.amenity + w.brand + w.urgency
    IN IF s = 0
       THEN [price |-> 1, distance |-> 1, amenity |-> 0, brand |-> 0,
             urgency |-> 0, den |-> 2]
       ELSE [price |-> w.price, distance |-> w.distance, amenity |-> w.amenity,
             brand |-> w.brand, urgency |-> w.urgency, den |-> s]

(***************************************************************************)
(* IEEE-754 binary64, the arithmetic of Python's float, for weights_for.   *)
(* A natural number below 2^58 is a pair [hi, lo] = hi * 2^27 + lo. A      *)
(* float is [neg, m, e] = (-1)^neg * m * 2^e with 2^52 <= m < 2^53, or     *)
(* zero (m = 0, e = 0). Every operation rounds to nearest, ties to even;   *)
(* the values of weights_for stay far from overflow and underflow.         *)
(***************************************************************************)
B27 == 134217728

BZero == [hi |-> 0, lo |-> 0]
BOne == [hi |-> 0, lo |-> 1]
TwoTo52 == [hi |-> 33554432, lo |-> 0]
TwoTo53 == [hi |-> 67108864, lo |-> 0]

BLess(x, y) == x.hi < y.hi \/ (x.hi = y.hi /\ x.lo < y.lo)
BOdd(x) == x.lo % 2 = 1

BAdd(x, y) ==
    LET lo == x.lo + y.lo
    IN [hi |-> x.hi + y.hi + (lo \div B27), lo |-> lo % B27]

\* x - y for x >= y
BSub(x, y) ==
    IF x.lo >= y.lo
    THEN [hi |-> x.hi - y.hi, lo |-> x.lo - y.lo]
    ELSE [hi |-> x.hi - y.hi - 1, lo |-> x.lo - y.lo + B27]

BDouble(x) == BAdd(x, x)
BHalf(x) == [hi |-> x.hi \div 2, lo |-> (x.lo \div 2) + (x.hi % 2) * (B27 \div 2)]

RECURSIVE BShiftLeft(_, _)
BShiftLeft(x, n) == IF n = 0 THEN x ELSE BShiftLeft(BDouble(x), n - 1)

\* x shifted right by n bits, the lowest bit kept set when a set bit is lost
RECURSIVE BShiftRightSticky(_, _)
BShiftRightSticky(x, n) ==
    IF n = 0 \/ x = BZero THEN x
    ELSE LET h == BHalf(x)
         IN BShiftRightSticky(
                IF BOdd(x) /\ ~BOdd(h) THEN BAdd(h, BOne) ELSE h, n - 1)

FZero == [neg |-> FALSE, m |-> BZero, e |-> 0]

\* s * 2^e with s < 2^52 and s # 0, exactly
RECURSIVE FScaleUp(_, _)
FScaleUp(s, e) ==
    IF BLess(s, TwoTo52) THEN FScaleUp(BDouble(s), e - 1)
    ELSE [neg |-> FALSE, m |-> s, e |-> e]

\* s * 2^e with s >= 2^52, rounded to 53 bits: rnd is the last bit
\* dropped, sticky says whether a set bit was dropped before it
RECURSIVE FRoundDown(_, _, _, _)
FRoundDown(s, e, rnd, sticky) ==
    IF ~BLess(s, TwoTo53) THEN FRoundDown(BHalf(s), e + 1, BOdd(s), sticky \/ rnd)
    ELSE LET up == rnd /\ (sticky \/ BOdd(s))
             s1 == IF up THEN BAdd(s, BOne) ELSE s
         IN IF s1 = TwoTo53
            THEN [neg |-> FALSE, m |-> TwoTo52, e |-> e + 1]
            ELSE [neg |-> FALSE, m |-> s1, e |-> e]

\* the float nearest to s * 2^e
FRound(s, e) ==
    IF s = BZero THEN FZero
    ELSE IF BLess(s, TwoTo52) THEN FScaleUp(s, e)
    ELSE FRoundDown(s, e, FALSE, FALSE)

\* float(n) for a small natural number n
FromInt(n) == FRound([hi |-> 0, lo |-> n], 0)

\* a < b for floats a, b >= 0
FLess(a, b) ==
    IF b = FZero THEN FALSE
    ELSE IF a = FZero THEN TRUE
    ELSE a.e < b.e \/ (a.e = b.e /\ BLess(a.m, b.m))

\* a + b for floats a, b >= 0: the smaller operand is aligned to the larger
\* one under three guard bits
FAdd(a, b) ==
    IF a = FZero THEN b
    ELSE IF b = FZero THEN a
    ELSE LET x == IF FLess(a, b) THEN b ELSE a
             y == IF FLess(a, b) THEN a ELSE b
             xs == BShiftLeft(x.m, 3)
             ys == BShiftRightSticky(BShiftLeft(y.m, 3), x.e - y.e)
         IN FRound(BAdd(xs, ys), x.e - 3)

\* a - b for floats a, b >= 0
FSub(a, b) ==
    IF b = FZero THEN a
    ELSE IF a = b THEN FZero
    ELSE LET x == IF FLess(a, b) THEN b ELSE a
             y == IF FLess(a, b) THEN a ELSE b
             xs == BShiftLeft(x.m, 3)
             ys == BShiftRightSticky(BShiftLeft(y.m, 3), x.e - y.e)
             r == FRound(BSub(xs, ys), x.e - 3)
         IN [neg |-> FLess(a, b), m |-> r.m, e |-> r.e]

\* n more quotient bits of r / d by shift and subtract (r < d); qt holds
\* the quotient bits so far
RECURSIVE DivLoop(_, _, _, _)
DivLoop(qt, r, d, n) ==
    IF n = 0 \/ BLess(TwoTo53, qt) THEN [qt |-> qt, r |-> r]
    ELSE LET r2 == BDouble(r)
         IN IF BLess(r2, d)
            THEN DivLoop(BDouble(qt), r2, d, n - 1)
            ELSE DivLoop(BAdd(BDouble(qt), BOne), BSub(r2, d), d, n - 1)

\* a / b for floats a >= 0, b > 0
FDiv(a, b) ==
    IF a = FZero THEN FZero
    ELSE LET ge == ~BLess(a.m, b.m)
             n == IF ge THEN 52 ELSE 53
             res == IF ge THEN DivLoop(BOne, BSub(a.m, b.m), b.m, n)
                    ELSE DivLoop(BZero, a.m, b.m, n)
             r2 == BDouble(res.r)
             up == BLess(b.m, r2) \/ (r2 = b.m /\ BOdd(res.qt))
             q1 == IF up THEN BAdd(res.qt, BOne) ELSE res.qt
         IN IF q1 = TwoTo53
            THEN [neg |-> FALSE, m |-> TwoTo52, e |-> a.e - b.e - n + 1]
            ELSE [neg |-> FALSE, m |-> q1, e |-> a.e - b.e - n]

\* max(0.0, x)
FMax0(x) == IF x.neg THEN FZero ELSE x

\* the float literal n / 20 (0.25 is 5 / 20, 0.15 is 3 / 20)
Twentieths(n) == FDiv(FromInt(n), FromInt(20))

(***************************************************************************)
(* weights_for in binary64 (lines 73-105), step by step.                   *)
(***************************************************************************)
\* lines 82-96: the base weights of the mode, nudged by the priority
NudgedF64(mode, priority) ==
    LET b == BaseWeights(Lower(mode))
        f == [k \in DOMAIN b |-> Twentieths(b[k])]
        p == Lower(priority)
    IN CASE p = TextOf.cheapest ->
              [f EXCEPT !.price = FAdd(@, Twentieths(3)),
                        !.distance = FSub(@, Twentieths(2))]
         [] p = TextOf.closest ->
              [f EXCEPT !.distance = FAdd(@, Twentieths(3)),
                        !.price = FSub(@, Twentieths(2))]
         [] OTHER -> f

\* lines 99-100
ClampedF64(mode, priority) ==
    LET n == NudgedF64(mode, priority)
    IN [k \in DOMAIN n |-> FMax0(n[k])]

\* line 101: sum(w.values()), from the left in the order of the dict
SumF64(w) ==
    FAdd(FAdd(FAdd(FAdd(FAdd(FZero, w.price), w.distance), w.amenity), w.brand),
         w.urgency)

\* the weights returned as they are, not divided by their sum
NotRenormalisedF64(w, s) == w

\* line 105
RenormalisedF64(w, s) == [k \in DOMAIN w |-> FDiv(w[k], s)]

weights_for_f64(mode, priority) ==
    LET w == ClampedF64(mode, priority)
        s == SumF64(w)
    IN IF s = FZero
       THEN [price |-> Twentieths(10), distance |-> Twentieths(10),
             amenity |-> FZero, brand |-> FZero, urgency |-> FZero]
       ELSE RenormalisedF64(w, s)

(***************************************************************************)
(* Sequence helpers.                                                       *)
(***************************************************************************)
RECURSIVE SeqMin(_)
SeqMin(s) == IF Len(s) = 1 THEN s[1] ELSE Min2(s[1], SeqMin(Tail(s)))

RECURSIVE SeqMax(_)
SeqMax(s) == IF Len(s) = 1 THEN s[1] ELSE Max2(s[1], SeqMax(Tail(s)))

Column(out, f) == [i \in 1..Len(out) |-> out[i][f]]

(***************************************************************************)
(* normalize: min-max scaling of one column. Each output is a record       *)
(* [num, den, nan] for the value num / den, or NaN. With hi = inf and      *)
(* lo finite, (v - lo) / inf is 0.0 for a finite v and inf / inf = NaN     *)
(* for v = inf. min() of an empty list raises ValueError: the caller       *)
(* decides whether the call is reached (NormalizeRaises).                  *)
(***************************************************************************)
NormalizeRaises(series) == series = <<>>

\* the scaling without the test of line 44: v - lo over hi - lo = 0 (a
\* ZeroDivisionError, or inf - inf), no value
NormalizeUnguarded(series) ==
    [i \in 1..Len(series) |-> [num |-> 0, den |-> 1, nan |-> TRUE]]

normalize(series) ==
    LET lo == SeqMin(series)
        hi == SeqMax(series)
    IN IF hi = lo
       THEN [i \in 1..Len(series) |-> [num |-> 0, den |-> 1, nan |-> FALSE]]
       ELSE IF hi = Inf
       THEN [i \in 1..Len(series) |->
               [num |-> 0, den |-> 1, nan |-> (series[i] = Inf)]]
       ELSE [i \in 1..Len(series) |->
               [num |-> series[i] - lo, den |-> hi - lo, nan |-> FALSE]]

(***************************************************************************)
(* rank_stations, step by step (lines 126-155): parsing, coordinates,      *)
(* distance, brand match, the three hard filters.                          *)
(***************************************************************************)
\* lines 126-129: the copy of the table with the price column parsed; idx is
\* the DataFrame index label of the row
ParsedFrame(table) ==
    [i \in 1..Len(table) |->
        [idx |-> i, name |-> table[i].name, address |-> table[i].address,
         price |-> parse_price(table[i].price),
         latitude |-> table[i].latitude, longitude |-> table[i].longitude]]

\* lines 132-134: dropna(subset=["latitude", "longitude"])
DropMissingCoords(out) ==
    SelectSeq(out, LAMBDA r : r.latitude # NaN /\ r.longitude # NaN)

\* lines 143-146: brand_match is False unless q.brand is set
BrandMatch(name, qq) ==
    IF qq.brand # <<>> THEN Contains(Lower(name), Lower(Strip(qq.brand))) ELSE FALSE

\* lines 137-146: the distance and brand_match columns
WithDistance(out, qq) ==
    [i \in 1..Len(out) |->
        [idx |-> out[i].idx, name |-> out[i].name, address |-> out[i].address,
         price |-> out[i].price,
         latitude |-> out[i].latitude, longitude |-> out[i].longitude,
         distance |-> haversine_miles(qq.user_lat, qq.user_lon,
                                      out[i].latitude, out[i].longitude),
         brand_match |-> BrandMatch(out[i].name, qq)]]

\* the comparison of line 149 inverted
FilterDistanceInverted(out, qq) ==
    SelectSeq(out, LAMBDA r : r.distance >= qq.max_distance)

\* the radius never applied
FilterDistanceOff(out, qq) == out

\* line 149
FilterDistance(out, qq) == SelectSeq(out, LAMBDA r : r.distance <= qq.max_distance)

\* the brand match computed and never used as a filter
FilterBrandOff(out, qq) == out

\* lines 150-152
FilterBrand(out, qq) ==
    IF qq.brand # <<>> THEN SelectSeq(out, LAMBDA r : r.brand_match) ELSE out

\* the cap relaxed to the pre-cap frame when it would empty it
FilterBudgetFallback(out, qq) ==
    IF qq.mode = "budget" /\ SelectSeq(out, LAMBDA r : r.price <= qq.scale) # <<>>
    THEN SelectSeq(out, LAMBDA r : r.price <= qq.scale)
    ELSE out

\* the cap never applied
FilterBudgetOff(out, qq) == out

\* the cap applied whatever the mode
FilterBudgetInEveryMode(out, qq) == SelectSeq(out, LAMBDA r : r.price <= qq.scale)

\* lines 153-155: in budget mode scale is the price cap, a hard filter
FilterBudget(out, qq) ==
    IF qq.mode = "budget" THEN SelectSeq(out, LAMBDA r : r.price <= qq.scale) ELSE out

\* the frame before the price cap is applied (line 152)
PreCap(table, qq) ==
    FilterBrand(FilterDistance(WithDistance(DropMissingCoords(ParsedFrame(table)), qq), qq), qq)

\* the frame after the FILTERS block (line 155)
Candidates(table, qq) == FilterBudget(PreCap(table, qq), qq)

(***************************************************************************)
(* Sorting. DataFrame.sort_values on several columns is a stable           *)
(* lexicographic sort with NaN keys last (and equal to one another);       *)
(* the tables of the model stay below the size at which the one-column     *)
(* sort stops being an insertion sort, so that one is stable too.          *)
(***************************************************************************)
ScoreLess(a, b) == ~a.score_nan /\ (b.score_nan \/ a.score < b.score)
ScoreSame(a, b) ==
    (a.score_nan /\ b.score_nan) \/ (~a.score_nan /\ ~b.score_nan /\ a.score = b.score)

\* line 162: sort_values(["price", "distance"])
LessDedupe(a, b) ==
    a.price < b.price \/ (a.price = b.price /\ a.distance < b.distance)

\* the score key of line 214 taken in descending order
LessCheapestScoreDescending(a, b) ==
    \/ a.price < b.price
    \/ a.price = b.price /\ ScoreLess(b, a)
    \/ a.price = b.price /\ ScoreSame(a, b) /\ a.distance < b.distance

\* line 214: sort_values(["price", "score", "distance"])
LessCheapest(a, b) ==
    \/ a.price < b.price
    \/ a.price = b.price /\ ScoreLess(a, b)
    \/ a.price = b.price /\ ScoreSame(a, b) /\ a.distance < b.distance

\* the score key of line 217 taken in descending order
LessClosestScoreDescending(a, b) ==
    \/ a.distance < b.distance
    \/ a.distance = b.distance /\ ScoreLess(b, a)
    \/ a.distance = b.distance /\ ScoreSame(a, b) /\ a.price < b.price

\* line 217: sort_values(["distance", "score", "price"])
LessClosest(a, b) ==
    \/ a.distance < b.distance
    \/ a.distance = b.distance /\ ScoreLess(a, b)
    \/ a.distance = b.distance /\ ScoreSame(a, b) /\ a.price < b.price

\* the sort of line 219 taken in descending order
LessBalancedDescending(a, b) == ScoreLess(b, a)

\* line 219: sort_values("score")
LessBalanced(a, b) == ScoreLess(a, b)

Less(key, a, b) ==
    CASE key = "dedupe" -> LessDedupe(a, b)
      [] key = "cheapest" -> LessCheapest(a, b)
      [] key = "closest" -> LessClosest(a, b)
      [] OTHER -> LessBalanced(a, b)

\* r placed behind every row that is not greater than it
RECURSIVE InsertRow(_, _, _)
InsertRow(s, r, key) ==
    IF s = <<>> THEN <<r>>
    ELSE IF Less(key, r, Head(s)) THEN <<r>> \o s
    ELSE <<Head(s)>> \o InsertRow(Tail(s), r, key)

RECURSIVE SortValues(_, _)
SortValues(s, key) ==
    IF s = <<>> THEN <<>>
    ELSE InsertRow(SortValues(SubSeq(s, 1, Len(s) - 1), key), s[Len(s)], key)

(***************************************************************************)
(* Deduplication (lines 162-165): drop_duplicates(subset=["name",          *)
(* "address"], keep="first") after the sort by price, then distance.       *)
(***************************************************************************)
SameStation(a, b) == a.name = b.name /\ a.address = b.address

RECURSIVE DropDuplicates(_)
DropDuplicates(s) ==
    IF s = <<>> THEN <<>>
    ELSE LET rest == DropDuplicates(SubSeq(s, 1, Len(s) - 1))
             r == s[Len(s)]
         IN IF \E i \in 1..Len(rest) : SameStation(rest[i], r)
            THEN rest
            ELSE Append(rest, r)

Deduplicated(out) == DropDuplicates(SortValues(out, "dedupe"))

(***************************************************************************)
(* Scoring (lines 168-210). amenity_proxy is counted in halves.            *)
(***************************************************************************)
Tok7Eleven == <<"7","-","e","l","e","v","e","n">>
TokChevron == <<"c","h","e","v","r","o","n">>
TokShell == <<"s","h","e","l","l">>
TokCostco == <<"c","o","s","t","c","o">>

amenity_proxy(name) ==
    LET n == Lower(name)
    IN (IF Contains(n, Tok7Eleven) \/ Contains(n, TokChevron) \/ Contains(n, TokShell)
        THEN 2 ELSE 0)
       + (IF Contains(n, TokCostco) THEN 1 ELSE 0)

\* lines 177-178, in tenths
EmergencyUrgency(qq) == IF qq.mode = "emergency" THEN qq.scale ELSE 0
ComfortScale(qq) == IF qq.mode = "comfort" THEN qq.scale ELSE 5
\* lines 201-202, in tenths
AmenityMultiplier(qq) == IF qq.mode = "comfort" THEN 5 + ComfortScale(qq) ELSE 10

\* The score of one row (lines 204-210) times the positive number
\*   w.den * Dp * Dd^2 * Da * 1000,
\* where Dp, Dd, Da are the denominators of the three normalised columns:
\* the same factor for every row of the call, so scores compare as these do.
\* A NaN norm_price makes the score NaN.
ScoreOf(np, nd, na, w, qq, brand_match) ==
    LET m == AmenityMultiplier(qq)
    IN [nan |-> np.nan,
        num |-> IF np.nan THEN 0 ELSE
                w.price * np.num * nd.den * nd.den * na.den * 1000
                + w.distance * nd.num * nd.den * np.den * na.den * 1000
                + w.urgency * EmergencyUrgency(qq) * nd.num * nd.num
                    * np.den * na.den * 100
                - w.amenity * m * na.num * np.den * nd.den * nd.den * 10
                - (IF qq.brand # <<>> /\ brand_match
                   THEN w.brand * m * 7 * np.den * nd.den * nd.den * na.den
                   ELSE 0)]

Scored(out, qq) ==
    LET np == normalize(Column(out, "price"))
        nd == normalize(Column(out, "distance"))
        na == normalize([j \in 1..Len(out) |-> amenity_proxy(out[j].name)])
        w == weights_for(TextOf[qq.mode], TextOf[qq.priority])
    IN [i \in 1..Len(out) |->
          LET sc == ScoreOf(np[i], nd[i], na[i], w, qq, out[i].brand_match)
          IN [idx |-> out[i].idx, name |-> out[i].name, address |-> out[i].address,
              price |-> out[i].price,
              latitude |-> out[i].latitude, longitude |-> out[i].longitude,
              distance |-> out[i].distance, brand_match |-> out[i].brand_match,
              score |-> sc.num, score_nan |-> sc.nan]]

(***************************************************************************)
(* Ordering and truncation (lines 212-219).                                *)
(***************************************************************************)
SortKey(priority) ==
    CASE priority = "cheapest" -> "cheapest"
      [] priority = "closest" -> "closest"
      [] OTHER -> "balanced"

\* the last k rows in place of the first k
LastRows(s, k) == SubSeq(s, Len(s) - Min2(k, Len(s)) + 1, Len(s))

\* .head(top_k)
FirstRows(s, k) == SubSeq(s, 1, Min2(k, Len(s)))

Ordered(out, qq) == SortValues(out, SortKey(qq.priority))

(***************************************************************************)
(* build_reason (lines 108-122): the reasons, in order, that the code      *)
(* joins with " | ". inf - inf is NaN, and NaN < 1e-9 is false.            *)
(***************************************************************************)
build_reason(row, qq, cohort_min_price, cohort_min_dist) ==
    LET reasons ==
          (IF row.price = cohort_min_price /\ row.price # Inf
           THEN <<"Cheapest within">> ELSE <<>>)
          \o (IF row.distance = cohort_min_dist THEN <<"Closest option">> ELSE <<>>)
          \o (IF qq.mode = "budget" /\ row.price <= qq.scale
              THEN <<"Within budget">> ELSE <<>>)
          \o (IF qq.brand # <<>> /\ row.brand_match
              THEN <<"Matches preferred brand">> ELSE <<>>)
          \o (IF qq.mode = "emergency" /\ qq.scale >= 7
                 /\ row.distance <= Min2(qq.max_distance, cohort_min_dist + 10)
              THEN <<"Good when urgency is high">> ELSE <<>>)
    IN IF reasons = <<>> THEN <<"Good balance of price + distance">> ELSE reasons

\* lines 221-223
Justified(out, qq) ==
    LET cohort_min_price == SeqMin(Column(out, "price"))
        cohort_min_dist == SeqMin(Column(out, "distance"))
    IN [i \in 1..Len(out) |->
          [idx |-> out[i].idx, name |-> out[i].name, address |-> out[i].address,
           price |-> out[i].price,
           latitude |-> out[i].latitude, longitude |-> out[i].longitude,
           distance |-> out[i].distance, brand_match |-> out[i].brand_match,
           score |-> out[i].score, score_nan |-> out[i].score_nan,
           why |-> build_reason(out[i], qq, cohort_min_price, cohort_min_dist)]]

(***************************************************************************)
(* rank_stations as a whole: what it returns, the frame it held after the  *)
(* filters, the steps that ran, and whether an exception left it.          *)
(***************************************************************************)
\* the early return of lines 157-158 left out
EarlyReturnNever(out) == FALSE

\* lines 157-158
EarlyReturn(out) == Len(out) = 0

rank_stations(table, qq, k) ==
    LET cands == Candidates(table, qq)
        dedup == Deduplicated(cands)
    IN IF EarlyReturn(cands)
       THEN [outcome |-> "ok", filtered |-> cands, ranked |-> cands,
             stages |-> <<"filter">>]
       ELSE IF NormalizeRaises(dedup)
       THEN [outcome |-> "error", filtered |-> cands, ranked |-> <<>>,
             stages |-> <<"filter", "dedupe", "score">>]
       ELSE [outcome |-> "ok", filtered |-> cands,
             ranked |-> Justified(FirstRows(Ordered(Scored(dedup, qq), qq), k), qq),
             stages |-> <<"filter", "dedupe", "score", "sort", "why">>]

(***************************************************************************)
(* ensure_unique_ids (api_main.py lines 25-32).                            *)
(***************************************************************************)
DefaultId == <<"s","t","a","t","i","o","n">>

RECURSIVE IntToText(_)
IntToText(n) ==
    IF n < 10 THEN <<DigitChars[n + 1]>>
    ELSE IntToText(n \div 10) \o <<DigitChars[(n % 10) + 1]>>

\* seen.get(base, 0)
SeenCount(seen, base) == IF base \in DOMAIN seen THEN seen[base] ELSE 0

\* line 28: str(item.get("id", "")).strip() or "station"
BaseId(item) == IF Strip(item.id) = <<>> THEN DefaultId ELSE Strip(item.id)

\* line 30
AssignedId(base, count) ==
    IF count = 0 THEN base ELSE base \o <<"-">> \o IntToText(count + 1)

\* the loop of lines 27-31 over the items still to visit
RECURSIVE UniqueLoop(_, _)
UniqueLoop(rest, seen) ==
    IF rest = <<>> THEN <<>>
    ELSE LET base == BaseId(Head(rest))
             count == SeenCount(seen, base)
         IN <<[id |-> AssignedId(base, count)]>>
            \o UniqueLoop(Tail(rest), (base :> (count + 1)) @@ seen)

ensure_unique_ids(its) == UniqueLoop(its, <<>>)

(***************************************************************************)
(* _build_query (lines 293-339): the validation and normalisation of a     *)
(* request.  The raw scale is in tenths (of a dollar in budget mode), the  *)
(* raw max_distance in tenths of a mile; None is the empty sequence.       *)
(***************************************************************************)
\* comparisons of floats: every comparison with NaN is false
FloatLess(a, b) == a # NaN /\ b # NaN /\ a < b
FloatLessEq(a, b) == a # NaN /\ b # NaN /\ a <= b

\* Python's max(a, b) and min(a, b): the first argument unless the second
\* one is greater (smaller)
PyMax(a, b) == IF FloatLess(a, b) THEN b ELSE a
PyMin(a, b) == IF FloatLess(b, a) THEN b ELSE a

LatLimit == 62184   \* 90 degrees of latitude in arcs of a tenth of a mile
LonLimit == 180     \* degrees of longitude

LatitudeAnything(user_lat) == TRUE

LatitudeInRange(user_lat) ==
    FloatLessEq(-LatLimit, user_lat) /\ FloatLessEq(user_lat, LatLimit)

LongitudeInRange(user_lon) ==
    FloatLessEq(-LonLimit, user_lon) /\ FloatLessEq(user_lon, LonLimit)

\* lines 317-323: the scale of a request that gives none
DefaultScale(mode) ==
    IF mode = TextOf.budget THEN 50
    ELSE IF mode = TextOf.comfort THEN 5
    ELSE 7

ScaleNotClamped(mode, scale) == scale

\* lines 325-328
ClampedScale(mode, scale) ==
    IF mode = TextOf.budget THEN PyMax(1, scale)
    ELSE PyMax(0, PyMin(10, scale))

\* the unit of Query.scale: cents in budget mode, tenths otherwise
InQueryUnits(mode, scale) ==
    IF mode = TextOf.budget /\ scale # Inf /\ scale # NaN THEN 10 * scale ELSE scale

NameOf(text) == CHOOSE k \in DOMAIN TextOf : TextOf[k] = text

_build_query(user_lat, user_lon, mode, scale, max_distance, priority, brand) ==
    LET m == Lower(Strip(mode))
        p == Lower(Strip(priority))
        sc == IF scale = <<>> THEN DefaultScale(m) ELSE scale[1]
        clean_brand == Strip(brand)
    IN  IF m \notin {TextOf.emergency, TextOf.budget, TextOf.comfort}
        THEN [ok |-> FALSE, error |-> "Invalid mode"]
        ELSE IF p \notin {TextOf.cheapest, TextOf.closest, TextOf.balanced}
        THEN [ok |-> FALSE, error |-> "Invalid priority"]
        ELSE IF ~LatitudeInRange(user_lat)
        THEN [ok |-> FALSE, error |-> "Latitude must be in range"]
        ELSE IF ~LongitudeInRange(user_lon)
        THEN [ok |-> FALSE, error |-> "Longitude must be in range"]
        ELSE [ok |-> TRUE,
              query |-> [user_lat |-> user_lat, user_lon |-> user_lon,
                         mode |-> NameOf(m),
                         scale |-> InQueryUnits(m, ClampedScale(m, sc)),
                         max_distance |-> PyMax(1, max_distance),
                         priority |-> NameOf(p),
                         brand |-> clean_brand]]

(***************************************************************************)
(* Inputs of the model.                                                    *)
(***************************************************************************)
NameShell == <<"S","h","e","l","l">>
NameShellFmt == <<"S","H","E","L","L"," ">>
NameGasMart == <<"G","a","s"," ","M","a","r","t">>
Address1 == <<"1"," ","M","a","i","n">>
Price380 == <<"$","3",".","8","0">>
Price420 == <<"4",".","2","0">>
PriceNA == <<"N","/","A">>
BrandMart == <<"M","a","r","t">>
NoBrand == <<>>

UserLat == 0
UserLon == 0

Modes == {"emergency", "budget", "comfort"}
Priorities == {"cheapest", "closest", "balanced"}

\* the scale of the query per mode: urgency 0.9, a cap of $4.00, comfort 0.5
ScaleOf(mode) ==
    CASE mode = "budget" -> 400
      [] mode = "emergency" -> 9
      [] OTHER -> 5

Rows(names, prices, lats) ==
    [name : names, address : {Address1}, price : prices,
     latitude : lats, longitude : {UserLon}]

Tables(rows) == UNION {[1..n -> rows] : n \in 0..MaxRows}

Queries(modes, priorities, brands) ==
    {[user_lat |-> UserLat, user_lon |-> UserLon, mode |-> m, scale |-> ScaleOf(m),
      max_distance |-> 3, priority |-> p, brand |-> b] :
        m \in modes, p \in priorities, b \in brands}

NoQuery == CHOOSE x \in Queries({"emergency"}, {"balanced"}, {NoBrand}) : TRUE

\* three stations 1.0, 3.0 and 4.9 miles from the user, priced 4.50, 4.00
\* and 3.80, and an emergency query of urgency 0.9 over 5 miles
Address2 == <<"2"," ","M","a","i","n">>
Address3 == <<"3"," ","M","a","i","n">>
Price450 == <<"4",".","5","0">>
Price400 == <<"4",".","0","0">>

ScenarioRows ==
    {[name |-> NameGasMart, address |-> Address1, price |-> Price450,
      latitude |-> 10, longitude |-> UserLon],
     [name |-> NameGasMart, address |-> Address2, price |-> Price400,
      latitude |-> 30, longitude |-> UserLon],
     [name |-> NameGasMart, address |-> Address3, price |-> Price380,
      latitude |-> 49, longitude |-> UserLon]}

ScenarioTables == {t \in [1..3 -> ScenarioRows] : \A i, j \in 1..3 : t[i] = t[j] => i = j}

ScenarioQuery ==
    [user_lat |-> UserLat, user_lon |-> UserLon, mode |-> "emergency", scale |-> 9,
     max_distance |-> 50, priority |-> "balanced", brand |-> NoBrand]

\* two priced stations, the cheaper one farther away, and a station between
\* them whose price is unreadable
BadPriceRows ==
    {[name |-> NameGasMart, address |-> Address1, price |-> Price380,
      latitude |-> 3, longitude |-> UserLon],
     [name |-> NameGasMart, address |-> Address2, price |-> Price420,
      latitude |-> 1, longitude |-> UserLon],
     [name |-> NameGasMart, address |-> Address3, price |-> PriceNA,
      latitude |-> 2, longitude |-> UserLon]}

BadPriceTables == {t \in [1..3 -> BadPriceRows] : \A i, j \in 1..3 : t[i] = t[j] => i = j}

\* the mode and priority texts handed to weights_for: the names of the
\* Query, names in another letter case, unrecognised names, the empty text
ModeTexts ==
    {TextOf.emergency, TextOf.budget, TextOf.comfort,
     <<"B","u","d","g","e","t">>, <<"e","c","o">>, <<>>}
PriorityTexts ==
    {TextOf.cheapest, TextOf.closest, TextOf.balanced,
     <<"C","L","O","S","E","S","T">>, <<"f","a","s","t">>}

\* the requests handed to main: modes and priorities in other letter cases
\* and with blanks around them, unknown names, locations outside the valid
\* ranges or missing, a scale that is missing, negative, large, infinite or
\* not a number, a max_distance that is zero or not a number, a brand with
\* blanks around it, a top below 1
MainModes ==
    {TextOf.emergency, TextOf.budget, TextOf.comfort,
     <<" ","B","u","d","g","e","t">>, <<"e","c","o">>}
MainPriorities ==
    {TextOf.cheapest, <<"C","l","o","s","e","s","t"," ">>, <<"f","a","s","t">>}
MainLocations ==
    {<<>>, <<UserLat, UserLon>>, <<LatLimit, UserLon>>, <<LatLimit + 1, UserLon>>,
     <<-(LatLimit + 1), UserLon>>, <<NaN, UserLon>>, <<UserLat, LonLimit + 1>>}
MainScales == {<<>>, <<-5>>, <<40>>, <<Inf>>, <<NaN>>}
MainBrands == {NoBrand, <<" ","M","a","r","t"," ">>, <<" "," ">>}
MainTables ==
    {<<[name |-> NameGasMart, address |-> Address1, price |-> Price380,
        latitude |-> 1, longitude |-> UserLon],
       [name |-> NameGasMart, address |-> Address2, price |-> PriceNA,
        latitude |-> 1, longitude |-> UserLon]>>,
     <<[name |-> NameShell, address |-> Address1, price |-> PriceNA,
        latitude |-> 1, longitude |-> UserLon]>>}

\* the columns of a station file that has all the required ones
AllColumns == {"name", "address", "price", "latitude", "longitude"}

MainRequests ==
    [json : BOOLEAN, location : MainLocations, mode : MainModes,
     priority : MainPriorities, scale : MainScales, max_distance : {0, 30, NaN},
     brand : MainBrands, top : 0..MaxTop, csv : MainTables,
     columns : {AllColumns}]

\* requests over station files that lack columns
MainColumnRequests ==
    [json : {TRUE}, location : {<<UserLat, UserLon>>},
     mode : {TextOf.emergency, <<"e","c","o">>}, priority : {TextOf.balanced},
     scale : {<<>>}, max_distance : {30}, brand : {NoBrand}, top : {0, 1},
     csv : MainTables, columns : SUBSET AllColumns]

\* the columns handed to normalize: prices in cents, readable or not
\* (+infinity), and distances; the empty column
SeriesValues == {0, 380, 420, Inf}
SeriesPool == UNION {[1..n -> SeriesValues] : n \in 0..(MaxRows + 1)}

\* the results file before any request wrote it
NoFile == [writer |-> 0, content |-> <<>>]

IdPool == {<<>>, <<"a">>, <<"a"," ">>, <<"a","-","2">>, DefaultId}

ItemLists == UNION {[1..n -> [id : IdPool]] : n \in 0..MaxItems}

\* main (lines 383-436): the request comes from the command line or from a
\* JSON file (json); SystemExit leaves main before the table is read
ArgparseRejects(a) ==
    /\ ~a.json
    /\ \/ a.mode \notin {TextOf.emergency, TextOf.budget, TextOf.comfort}
       \/ a.priority \notin {TextOf.cheapest, TextOf.closest, TextOf.balanced}

\* missing: the column a 'CSV missing required column' exit names
SystemExit ==
    [pc |-> "exit", outcome |-> "exit", q |-> NoQuery, df |-> <<>>, top_k |-> 1,
     filtered |-> <<>>, ranked |-> <<>>, stages |-> <<>>, missing |-> <<>>]

\* lines 427-429: the required columns, in the order they are looked for
RequiredColumns == <<"name", "address", "price", "latitude", "longitude">>

\* no column looked for
MissingColumnsNone(columns) == <<>>

MissingColumns(columns) == SelectSeq(RequiredColumns, LAMBDA c : c \notin columns)

main(a) ==
    IF ArgparseRejects(a) \/ a.location = <<>> THEN SystemExit
    ELSE LET b == _build_query(a.location[1], a.location[2], a.mode, a.scale,
                               a.max_distance, a.priority, a.brand)
         IN  IF ~b.ok \/ a.top < 1 THEN SystemExit
             ELSE IF MissingColumns(a.columns) # <<>>
             THEN [SystemExit EXCEPT !.df = a.csv,
                                     !.missing = <<Head(MissingColumns(a.columns))>>]
             ELSE LET r == rank_stations(a.csv, b.query, a.top)
                  IN  [pc |-> "ranked", outcome |-> r.outcome, q |-> b.query,
                       df |-> a.csv, top_k |-> a.top, filtered |-> r.filtered,
                       ranked |-> r.ranked, stages |-> r.stages, missing |-> <<>>]

(***************************************************************************)
(* The state machine: the inputs of one call are drawn in Init, the call   *)
(* is one step.                                                            *)
(***************************************************************************)
\* tables over stations that differ in brand, price and position (inside
\* the radius at 0.1 and 0.3 miles, outside at 0.4)
InitRank ==
    /\ pc = "rank"
    /\ df \in Tables(Rows({NameShell, NameGasMart},
                          {Price380, Price420, PriceNA}, {1, 3, 4}))
    /\ q \in Queries(Modes, Priorities, {NoBrand, BrandMart})
    /\ top_k \in 1..MaxTop
    /\ items = <<>>
    /\ args = <<>>

\* tables over rows of one station written in two ways
InitDuplicates ==
    /\ pc = "rank"
    /\ df \in Tables(Rows({NameShell, NameShellFmt}, {Price380, Price420}, {1, -1}))
    /\ q \in Queries({"emergency", "budget"}, {"cheapest", "balanced"}, {NoBrand})
    /\ top_k \in 1..MaxTop
    /\ items = <<>>
    /\ args = <<>>

\* tables in which rows lack a coordinate or a readable price
InitMissing ==
    /\ pc = "rank"
    /\ df \in Tables([name : {NameGasMart}, address : {Address1},
                       price : {Price380, PriceNA},
                       latitude : {1, NaN}, longitude : {UserLon, NaN}])
    /\ q \in Queries(Modes, Priorities, {NoBrand, BrandMart})
    /\ top_k \in 1..MaxTop
    /\ items = <<>>
    /\ args = <<>>

InitIds ==
    /\ pc = "ids"
    /\ df = <<>>
    /\ q = NoQuery
    /\ top_k = 1
    /\ items \in ItemLists
    /\ args = <<>>

\* the three-station emergency scenario, the table in any order
InitScenario ==
    /\ pc = "rank"
    /\ df \in ScenarioTables
    /\ q = ScenarioQuery
    /\ top_k \in 1..MaxTop
    /\ items = <<>>
    /\ args = <<>>

\* a table with one unreadable price, in any order, in the modes without a cap
InitBadPrice ==
    /\ pc = "rank"
    /\ df \in BadPriceTables
    /\ q \in Queries({"emergency", "comfort"}, Priorities, {NoBrand})
    /\ top_k \in 1..MaxTop
    /\ items = <<>>
    /\ args = <<>>

\* a call of weights_for
InitWeights ==
    /\ pc = "weights"
    /\ args \in [mode : ModeTexts, priority : PriorityTexts]
    /\ df = <<>>
    /\ q = NoQuery
    /\ top_k = 1
    /\ items = <<>>

\* a run of main on a request
InitMain ==
    /\ pc = "main"
    /\ args \in MainRequests \union MainColumnRequests
    /\ df = <<>>
    /\ q = NoQuery
    /\ top_k = 1
    /\ items = <<>>

\* a call of normalize
InitNormalize ==
    /\ pc = "normalize"
    /\ args \in SeriesPool
    /\ df = <<>>
    /\ q = NoQuery
    /\ top_k = 1
    /\ items = <<>>

Init ==
    /\ \/ InitRank \/ InitMissing \/ InitDuplicates \/ InitScenario
       \/ InitIds \/ InitWeights \/ InitMain \/ InitNormalize \/ InitBadPrice
    /\ filtered = <<>>
    /\ ranked = <<>>
    /\ stages = <<>>
    /\ outcome = "none"
    /\ ret = <<>>
    /\ calls = <<>>
    /\ results_file = NoFile

RankStations ==
    /\ pc = "rank"
    /\ \E r \in {rank_stations(df, q, top_k)} :
          /\ filtered' = r.filtered
          /\ ranked' = r.ranked
          /\ stages' = r.stages
          /\ outcome' = r.outcome
    /\ pc' = "ranked"
    /\ UNCHANGED <<args, ret, df, q, top_k, items, calls, results_file>>

EnsureUniqueIds ==
    /\ pc = "ids"
    /\ items' = ensure_unique_ids(items)
    /\ pc' = "unique"
    /\ UNCHANGED <<args, ret, df, q, top_k, filtered, ranked, stages, outcome, calls, results_file>>

\* weights_for(mode, priority): its value in exact arithmetic and the
\* floats it returns
WeightsFor ==
    /\ pc = "weights"
    /\ ret' = [exact |-> weights_for(args.mode, args.priority),
               f64 |-> weights_for_f64(args.mode, args.priority)]
    /\ pc' = "weighed"
    /\ UNCHANGED <<args, df, q, top_k, filtered, ranked, stages, outcome, items, calls, results_file>>

Main ==
    /\ pc = "main"
    /\ \E r \in {main(args)} :
          /\ pc' = r.pc
          /\ outcome' = r.outcome
          /\ q' = r.q
          /\ df' = r.df
          /\ top_k' = r.top_k
          /\ filtered' = r.filtered
          /\ ranked' = r.ranked
          /\ stages' = r.stages
          /\ ret' = r.missing
    /\ UNCHANGED <<args, items, calls, results_file>>

\* normalize(series); min() of an empty list raises ValueError
Normalize ==
    /\ pc = "normalize"
    /\ IF NormalizeRaises(args)
       THEN ret' = <<>> /\ outcome' = "error"
       ELSE ret' = normalize(args) /\ outcome' = "ok"
    /\ pc' = "normalized"
    /\ UNCHANGED <<args, df, q, top_k, filtered, ranked, stages, items, calls, results_file>>

Next == RankStations \/ EnsureUniqueIds \/ WeightsFor \/ Main \/ Normalize

Spec == Init /\ [][Next]_vars

(***************************************************************************)
(* The words of the specification that the claims use and the source       *)
(* under src/ does not define: the station identity key and the inferred   *)
(* brand (specification, section 4.3).                                     *)
(***************************************************************************)
\* station_id: the normalised (lower-cased, trimmed) name and address and the
\* coordinates; the one-way hash of the tuple is taken to be collision-free
StationId(r) == <<Strip(Lower(r.name)), Strip(Lower(r.address)), r.latitude, r.longitude>>

KnownBrands ==
    <<Tok7Eleven, TokChevron, TokShell, TokCostco, <<"a","r","c","o">>>>

RECURSIVE FirstToken(_)
FirstToken(s) ==
    IF s = <<>> \/ IsSpace(Head(s)) THEN <<>> ELSE <<Head(s)>> \o FirstToken(Tail(s))

\* infer_brand: the first known brand that occurs in the name, else the first
\* word of the name, else "Unknown"
InferBrand(name) ==
    LET hits == {i \in 1..Len(KnownBrands) : Contains(Lower(name), KnownBrands[i])}
    IN IF hits # {} THEN KnownBrands[CHOOSE i \in hits : \A j \in hits : i <= j]
       ELSE IF Strip(name) = <<>> THEN <<"U","n","k","n","o","w","n">>
       ELSE FirstToken(LStrip(name))

(***************************************************************************)
(* Claims.                                                                 *)
(***************************************************************************)
Returned == pc = "ranked" /\ outcome = "ok"

\* C1 (as claimed; the code violates it): the list returned by the ranking
\* call holds at most one row per station identity.
DedupTotality ==
    Returned =>
        \A i, j \in 1..Len(ranked) :
            i # j => StationId(ranked[i]) # StationId(ranked[j])

\* C2 (as claimed; the code violates it): after ensure_unique_ids no two
\* entries of the list share an id.
UniqueIdsInResponse ==
    pc = "unique" =>
        \A i, j \in 1..Len(items) : i # j => items[i].id # items[j].id

(***************************************************************************)
(* Helpers of the claims.                                                  *)
(***************************************************************************)
Range(f) == {f[i] : i \in DOMAIN f}

\* the table in another order
Orderings(n) == {f \in [1..n -> 1..n] : \A i, j \in 1..n : f[i] = f[j] => i = j}
Reordered(table, f) == [i \in 1..Len(table) |-> table[f[i]]]

\* a row without its index label
Content(r) ==
    [name |-> r.name, address |-> r.address, price |-> r.price,
     latitude |-> r.latitude, longitude |-> r.longitude]

\* the rows of identity id that deduplication keeps
KeptOf(table, qq, id) ==
    {Content(r) : r \in {x \in Range(Deduplicated(Candidates(table, qq))) :
                            StationId(x) = id}}

\* a is no worse than b in the order "lower price, then shorter distance"
CheaperThenCloser(a, b) ==
    a.price < b.price \/ (a.price = b.price /\ a.distance <= b.distance)

\* the other radii a query is compared with
AltDistances == 1..5

\* budget mode, some row passed the coordinate, radius and brand filters,
\* and none of those rows is within the cap
BudgetAllOverCap ==
    /\ q.mode = "budget"
    /\ PreCap(df, q) # <<>>
    /\ \A r \in Range(PreCap(df, q)) : r.price > q.scale

\* C3 (as claimed; the code violates it, through the defect of C1): of the
\* candidate rows that share one station identity exactly one is kept, it is
\* the one of lowest price and, among those, of shortest distance, and it is
\* the same whatever the order of the rows of the table.
DedupKeepsCheapestThenClosest ==
    Returned =>
        \A r \in Range(filtered) :
            LET id == StationId(r)
                group == {x \in Range(filtered) : StationId(x) = id}
                kept == {x \in Range(Deduplicated(filtered)) : StationId(x) = id}
            IN Cardinality(group) > 1 =>
                /\ Cardinality(kept) = 1
                /\ \A k \in kept : \A x \in group : CheaperThenCloser(k, x)
                /\ \A f \in Orderings(Len(df)) :
                      KeptOf(Reordered(df, f), q, id) = KeptOf(df, q, id)

\* C4 (as claimed; the code violates it): two in-radius rows equal in
\* normalised name, address and coordinates and different in their source
\* text yield exactly one returned row, the lower-priced one.
FormatVariantsYieldOneResult ==
    (Returned /\ top_k >= Len(df)) =>
        \A a, b \in Range(filtered) :
            (/\ StationId(a) = StationId(b)
             /\ (a.name # b.name \/ a.address # b.address)) =>
                LET hits == {x \in Range(ranked) : StationId(x) = StationId(a)}
                IN /\ Cardinality(hits) = 1
                   /\ \A x \in hits : x.price <= a.price /\ x.price <= b.price

\* C5 (as claimed; the code does otherwise): in budget mode, when no row that
\* passed the other filters is within the cap, the result is non-empty and
\* ordered by price over the cap, smallest first.
BudgetFallbackToPreCap ==
    (pc = "ranked" /\ BudgetAllOverCap) =>
        /\ outcome = "ok"
        /\ ranked # <<>>
        /\ \A i, j \in 1..Len(ranked) :
              i < j => ranked[i].price - q.scale <= ranked[j].price - q.scale

\* C5 (amended): in budget mode, when no row that passed the other filters
\* is within the cap, the cap stays a hard filter: the candidate set and the
\* returned list are empty, and no error is raised.
BudgetCapIsHardFilter ==
    (pc = "ranked" /\ BudgetAllOverCap) =>
        outcome = "ok" /\ filtered = <<>> /\ ranked = <<>>

\* C5 (witness): a budget call in which a station priced above the cap
\* passed the coordinate, radius and brand filters.
BudgetAllOverCapReached ==
    /\ pc = "ranked"
    /\ BudgetAllOverCap
    /\ \E r \in Range(PreCap(df, q)) : r.price # Inf

\* C6: every candidate after filtering is a row of the input table, each at
\* most once, and a query that differs only by a smaller max_distance never
\* has more candidates (a larger one never fewer), in every mode.
FilterMonotonicity ==
    pc = "ranked" =>
        /\ \A r \in Range(filtered) :
              /\ r.idx \in 1..Len(df)
              /\ r.name = df[r.idx].name
              /\ r.address = df[r.idx].address
              /\ r.price = parse_price(df[r.idx].price)
              /\ r.latitude = df[r.idx].latitude
              /\ r.longitude = df[r.idx].longitude
        /\ \A i, j \in 1..Len(filtered) : i # j => filtered[i].idx # filtered[j].idx
        /\ \A d \in AltDistances :
              LET other == Candidates(df, [q EXCEPT !.max_distance = d])
              IN /\ d <= q.max_distance => Len(other) <= Len(filtered)
                 /\ d >= q.max_distance => Len(other) >= Len(filtered)

\* C6 (witness): a budget call, with a row excluded by the cap, for which a
\* smaller radius leaves strictly fewer candidates.
SmallerRadiusShrinks ==
    /\ pc = "ranked"
    /\ q.mode = "budget"
    /\ Len(filtered) < Len(PreCap(df, q))
    /\ \E d \in AltDistances :
          /\ d < q.max_distance
          /\ Len(Candidates(df, [q EXCEPT !.max_distance = d])) < Len(filtered)

\* C7 (as claimed; the code does otherwise): every returned row is within
\* max_distance and, when query.brand is set, its inferred brand contains the
\* requested brand, case-insensitively.
ReturnedRowsMatchInferredBrand ==
    Returned =>
        \A r \in Range(ranked) :
            /\ r.distance <= q.max_distance
            /\ q.brand # <<>> =>
                  Contains(Lower(InferBrand(r.name)), Lower(Strip(q.brand)))

\* C7 (amended): every returned row is within max_distance of the user and,
\* when query.brand is set, its name contains the trimmed requested brand,
\* case-insensitively.
ReturnedRowsPassHardFilters ==
    Returned =>
        \A r \in Range(ranked) :
            /\ r.latitude # NaN /\ r.longitude # NaN
            /\ haversine_miles(q.user_lat, q.user_lon, r.latitude, r.longitude)
                  <= q.max_distance
            /\ q.brand # <<>> => Contains(Lower(r.name), Lower(Strip(q.brand)))

\* C7 (witness): a call with a brand set that returns a row while a row of
\* the table inside the radius is of another brand.
BrandExcludesRowInRadius ==
    /\ Returned
    /\ q.brand # <<>>
    /\ ranked # <<>>
    /\ \E j \in 1..Len(df) :
          /\ df[j].latitude # NaN
          /\ Abs(df[j].latitude - q.user_lat) <= q.max_distance
          /\ ~Contains(Lower(df[j].name), Lower(Strip(q.brand)))

\* C8: when the hard filters leave no candidate the call returns an empty
\* list, raises no error, and runs no deduplication, scoring, ordering or
\* justification step.
NoMatchIsEmptyResult ==
    (pc = "ranked" /\ filtered = <<>>) =>
        outcome = "ok" /\ ranked = <<>> /\ stages = <<"filter">>

\* C8 (witness): a brand filter that no station inside the radius matches.
BrandFilterEliminatesAll ==
    /\ pc = "ranked"
    /\ q.brand # <<>>
    /\ filtered = <<>>
    /\ \E r \in Range(df) :
          r.latitude # NaN /\ Abs(r.latitude - q.user_lat) <= q.max_distance

\* C9: in budget mode, when some row that passed the other filters is within
\* the cap, rows are returned and each has price <= cap; in the other modes
\* no cap is applied: the candidates are exactly the rows that passed the
\* coordinate, radius and brand filters, whatever their price.
BudgetCapRespected ==
    pc = "ranked" =>
        /\ (q.mode = "budget" /\ \E r \in Range(PreCap(df, q)) : r.price <= q.scale) =>
              /\ outcome = "ok"
              /\ ranked # <<>>
              /\ \A r \in Range(ranked) : r.price <= q.scale
        /\ q.mode # "budget" => filtered = PreCap(df, q)

\* C9 (witness): a budget call in which one row that passed the other
\* filters is within the cap and another is above it.
CapExcludesSomeRow ==
    /\ pc = "ranked"
    /\ q.mode = "budget"
    /\ \E a, b \in Range(PreCap(df, q)) : a.price <= q.scale /\ b.price > q.scale

\* C10: with priority 'cheapest' the returned rows are in ascending price;
\* of two rows of equal price the one with the better (lower, the score is
\* minimised) score comes first, and of two rows equal in price and score
\* the nearer one comes first.
CheapestOrdering ==
    (Returned /\ q.priority = "cheapest") =>
        \A i, j \in 1..Len(ranked) :
            i < j =>
                /\ ranked[i].price <= ranked[j].price
                /\ ranked[i].price = ranked[j].price =>
                      ~ScoreLess(ranked[j], ranked[i])
                /\ (ranked[i].price = ranked[j].price
                      /\ ScoreSame(ranked[i], ranked[j])) =>
                      ranked[i].distance <= ranked[j].distance

\* C10 (witness): two returned rows of equal price whose order was decided
\* by the score, against their order in the table.
CheapestTieBrokenByScore ==
    /\ Returned
    /\ q.priority = "cheapest"
    /\ \E i, j \in 1..Len(ranked) :
          /\ i < j
          /\ ranked[i].price = ranked[j].price
          /\ ScoreLess(ranked[i], ranked[j])
          /\ ranked[i].idx > ranked[j].idx

\* C11: with priority 'closest' the returned rows are in ascending distance;
\* of two rows of equal distance the one with the better (lower, the score
\* is minimised) score comes first, and of two rows equal in distance and
\* score the cheaper one comes first.
ClosestOrdering ==
    (Returned /\ q.priority = "closest") =>
        \A i, j \in 1..Len(ranked) :
            i < j =>
                /\ ranked[i].distance <= ranked[j].distance
                /\ ranked[i].distance = ranked[j].distance =>
                      ~ScoreLess(ranked[j], ranked[i])
                /\ (ranked[i].distance = ranked[j].distance
                      /\ ScoreSame(ranked[i], ranked[j])) =>
                      ranked[i].price <= ranked[j].price

\* C11 (witness): two returned rows of equal distance whose order was
\* decided by the score, against their order in the table.
ClosestTieBrokenByScore ==
    /\ Returned
    /\ q.priority = "closest"
    /\ \E i, j \in 1..Len(ranked) :
          /\ i < j
          /\ ranked[i].distance = ranked[j].distance
          /\ ScoreLess(ranked[i], ranked[j])
          /\ ranked[i].idx > ranked[j].idx

\* C12: with priority 'balanced' the returned rows are ordered by the score
\* alone, best (lowest) first: no row has a strictly better score than a row
\* placed before it, whatever their prices and distances.
BalancedOrdering ==
    (Returned /\ q.priority = "balanced") =>
        \A i, j \in 1..Len(ranked) :
            i < j => ~ScoreLess(ranked[j], ranked[i])

\* C12 (witness): a returned row placed, for its better score, before a
\* row that is cheaper or before a row that is nearer.
BalancedIgnoresPriceAndDistance ==
    /\ Returned
    /\ q.priority = "balanced"
    /\ \E i, j \in 1..Len(ranked) :
          /\ i < j
          /\ ScoreLess(ranked[i], ranked[j])
          /\ \/ ranked[i].price > ranked[j].price
             \/ ranked[i].distance > ranked[j].distance

\* the deduplicated candidates of the call, scored
ScoredCandidates == Scored(Deduplicated(filtered), q)

\* C13: for every top-K >= 1 the returned list has min(K, number of
\* deduplicated candidates) rows and is the head of the priority ordering:
\* no omitted candidate sorts before a returned row.
TopKIsPrefix ==
    (Returned /\ top_k >= 1 /\ filtered # <<>>) =>
        /\ Len(ranked) = Min2(top_k, Len(Deduplicated(filtered)))
        /\ Len(ranked) < Len(Deduplicated(filtered)) =>
              \A o \in Range(ScoredCandidates) :
                  (\A i \in 1..Len(ranked) : ranked[i].idx # o.idx) =>
                      \A i \in 1..Len(ranked) :
                          ~Less(SortKey(q.priority), o, ranked[i])

\* C13 (witness): a call that omits a candidate which sorts strictly after
\* every returned row.
TopKOmitsLaterRow ==
    /\ Returned
    /\ ranked # <<>>
    /\ Len(ranked) = top_k
    /\ Len(ranked) < Len(Deduplicated(filtered))
    /\ \E o \in Range(ScoredCandidates) :
          /\ \A i \in 1..Len(ranked) : ranked[i].idx # o.idx
          /\ \A i \in 1..Len(ranked) : Less(SortKey(q.priority), ranked[i], o)

\* the five weights
WeightKeys == {"price", "distance", "amenity", "brand", "urgency"}

\* a float of weights_for (0, or at least 2^-5) as a multiple of 2^-57
Ulps57(f) == IF f = FZero THEN BZero ELSE BShiftLeft(f.m, f.e + 57)

TwoTo57 == [hi |-> 1073741824, lo |-> 0]

\* the sum of the five floats, exactly, as a multiple of 2^-57
SumUlps57(w) ==
    BAdd(BAdd(BAdd(BAdd(Ulps57(w.price), Ulps57(w.distance)), Ulps57(w.amenity)),
              Ulps57(w.brand)), Ulps57(w.urgency))

\* | sum - 1 | as a multiple of 2^-57
Deviation57(w) ==
    LET s == SumUlps57(w)
    IN IF BLess(s, TwoTo57) THEN BSub(TwoTo57, s) ELSE BSub(s, TwoTo57)

\* the five floats are not negative and, when the clamped weights sum to 0,
\* they are 0.5, 0.5, 0, 0, 0
WeightsNonNegative ==
    /\ \A k \in WeightKeys : ~ret.f64[k].neg /\ ret.f64[k].e >= -57
    /\ SumF64(ClampedF64(args.mode, args.priority)) = FZero =>
          ret.f64 = [price |-> Twentieths(10), distance |-> Twentieths(10),
                     amenity |-> FZero, brand |-> FZero, urgency |-> FZero]

\* C14 (as claimed; the floats do otherwise): for every mode and priority
\* the five weights weights_for returns are >= 0 and sum to exactly 1, and
\* are 0.5, 0.5, 0, 0, 0 when all weights collapse to zero.
WeightsSumToExactlyOne ==
    pc = "weighed" =>
        /\ WeightsNonNegative
        /\ SumUlps57(ret.f64) = TwoTo57

\* C14 (amended): for every mode and priority the five floats weights_for
\* returns are >= 0 and their sum is within 2^-52 of 1; in exact arithmetic
\* the weights sum to 1; the sum before renormalisation is never 0, so the
\* 0.5 / 0.5 fallback is never taken.
WeightsSumToOneWithinRounding ==
    pc = "weighed" =>
        /\ WeightsNonNegative
        /\ ~BLess([hi |-> 0, lo |-> 32], Deviation57(ret.f64))
        /\ \A k \in WeightKeys : ret.exact[k] >= 0
        /\ ret.exact.den > 0
        /\ ret.exact.price + ret.exact.distance + ret.exact.amenity
              + ret.exact.brand + ret.exact.urgency = ret.exact.den
        /\ SumF64(ClampedF64(args.mode, args.priority)) # FZero

\* C14 (witness): an unrecognised mode with a priority that nudges the
\* weights, for which the floats returned do not sum to 1.
UnrecognisedModeNudged ==
    /\ pc = "weighed"
    /\ Lower(args.mode) \notin {TextOf.emergency, TextOf.budget, TextOf.comfort}
    /\ Lower(args.priority) \in {TextOf.cheapest, TextOf.closest}
    /\ Deviation57(ret.f64) # BZero

\* C15: in the emergency scenario (urgency 0.9, 5 miles, balanced; stations
\* at 1.0 / 3.0 / 4.9 miles priced 4.50 / 4.00 / 3.80) the station at 1.0
\* mile has the strictly best score and is returned first, though it is the
\* most expensive.
ScenarioClosestWins ==
    (pc = "ranked" /\ q = ScenarioQuery /\ Range(df) = ScenarioRows) =>
        /\ outcome = "ok"
        /\ ranked # <<>>
        /\ ranked[1].distance = 10
        /\ ranked[1].price = 450
        /\ \A o \in Range(ScoredCandidates) :
              o.idx # ranked[1].idx =>
                  /\ ScoreLess(ranked[1], o)
                  /\ o.price < ranked[1].price

\* C15 (witness): the scenario was ranked, all three stations were
\* candidates, and the first row of the table was not the nearest station.
ScenarioRanked ==
    /\ pc = "ranked"
    /\ q = ScenarioQuery
    /\ Range(df) = ScenarioRows
    /\ Len(filtered) = 3
    /\ df[1].latitude # 10
    /\ ranked # <<>>

(***************************************************************************)
(* Requests handed to main.                                                *)
(***************************************************************************)
\* main has returned or was left by SystemExit
MainReturned == args # <<>> /\ pc \in {"ranked", "exit"}

\* the request names a location, and its mode or priority is none of the
\* enumerated names (in any letter case, blanks around it ignored) or its
\* latitude or longitude is outside the valid range or not a number
InvalidRequest(a) ==
    /\ a.location # <<>>
    /\ \/ Lower(Strip(a.mode)) \notin {TextOf[m] : m \in Modes}
       \/ Lower(Strip(a.priority)) \notin {TextOf[p] : p \in Priorities}
       \/ a.location[1] = NaN
       \/ a.location[1] < -LatLimit \/ a.location[1] > LatLimit
       \/ a.location[2] = NaN
       \/ a.location[2] < -LonLimit \/ a.location[2] > LonLimit

\* C16: a request whose mode is not one of emergency/budget/comfort, whose
\* priority is not one of cheapest/closest/balanced, or whose latitude is
\* outside [-90, 90] or longitude outside [-180, 180] is rejected with an
\* error before the station table is loaded and before any filtering or
\* scoring runs; no ranking output is produced for it.
InvalidRequestRejected ==
    (MainReturned /\ InvalidRequest(args)) =>
        /\ pc = "exit"
        /\ outcome = "exit"
        /\ df = <<>>
        /\ stages = <<>>
        /\ filtered = <<>>
        /\ ranked = <<>>

\* C16 witness: a request read from a JSON file with an unknown mode, a
\* known priority, a valid location and a top of at least 1 was rejected
UnknownModeRejected ==
    /\ pc = "exit"
    /\ args.json
    /\ Lower(Strip(args.mode)) \notin {TextOf[m] : m \in Modes}
    /\ Lower(Strip(args.priority)) \in {TextOf[p] : p \in Priorities}
    /\ args.location = <<UserLat, UserLon>>
    /\ args.top >= 1
    /\ Len(args.csv) > 0

\* the domains of the fields of a Query: scale in tenths (0..1 is 0..10),
\* a budget cap in cents (0.1 is 10), max_distance in tenths of a mile
QueryWellFormed(qq) ==
    /\ qq.mode \in Modes
    /\ qq.priority \in Priorities
    /\ qq.scale # NaN
    /\ qq.mode \in {"emergency", "comfort"} => (0 <= qq.scale /\ qq.scale <= 10)
    /\ qq.mode = "budget" => qq.scale >= 10
    /\ qq.max_distance # NaN
    /\ qq.max_distance >= 1
    /\ \/ qq.brand = <<>>
       \/ Len(qq.brand) > 0 /\ Strip(qq.brand) = qq.brand

\* C17: every Query produced by _build_query satisfies: mode is one of
\* emergency/budget/comfort, priority is one of cheapest/closest/balanced,
\* scale lies in [0, 1] when mode is emergency or comfort and is a positive
\* price cap (>= 0.1) when mode is budget, max_distance is positive
\* (>= 0.1), and brand is either absent or a non-empty trimmed string; this
\* holds for every supplied scale value including a missing one.
BuiltQueryWellFormed ==
    (MainReturned /\ pc = "ranked") => QueryWellFormed(q)

\* C17 witness: a query was built from a request with a negative scale, a
\* max_distance of zero and a brand with blanks around it
ScaleClampedIntoDomain ==
    /\ MainReturned
    /\ pc = "ranked"
    /\ args.scale = <<-5>>
    /\ q.mode = "emergency"
    /\ q.scale = 0
    /\ args.max_distance = 0
    /\ q.max_distance = 1
    /\ args.brand # q.brand
    /\ q.brand = BrandMart

(***************************************************************************)
(* Rows with an unreadable price or without coordinates.                   *)
(***************************************************************************)
\* the price text holds no numeric token (no digit)
NoNumericToken(text) == \A i \in 1..Len(text) : ~IsDigit(text[i])

\* the row of the table a row of the frame came from has such a price text
Unpriced(r) == NoNumericToken(df[r.idx].price)

\* a price text without a numeric token, and no other, is parsed to
\* +infinity, and under the 'cheapest' ordering no such row precedes a row
\* with a finite price
UnparseablePriceIsInfiniteAndLast ==
    Returned =>
        /\ \A r \in Range(filtered) \union Range(ranked) :
              Unpriced(r) <=> r.price = Inf
        /\ q.priority = "cheapest" =>
              \A i, j \in 1..Len(ranked) :
                  (i < j /\ ranked[i].price = Inf) => ranked[j].price = Inf

\* C18: a row whose price text contains no numeric token gets price
\* +infinity; such a row is placed after every finite-priced row under the
\* ascending-price ('cheapest') ordering and is never returned when a
\* budget price cap is applied.
UnparseablePriceNeverWithinCap ==
    /\ UnparseablePriceIsInfiniteAndLast
    /\ (Returned /\ q.mode = "budget") =>
          \A r \in Range(ranked) : ~Unpriced(r)

\* a budget call with a finite cap returns no row without a readable price
UnparseablePriceOutsideFiniteCap ==
    (Returned /\ q.mode = "budget" /\ q.scale # Inf) =>
        \A r \in Range(ranked) : ~Unpriced(r)

\* row i of the table lacks a coordinate
LacksCoordinates(i) == df[i].latitude = NaN \/ df[i].longitude = NaN

\* row i of the table has both coordinates, lies within the radius, passes
\* the brand filter when one is set, and its price text is unreadable
UnpricedInRadius(i) ==
    /\ ~LacksCoordinates(i)
    /\ haversine_miles(q.user_lat, q.user_lon, df[i].latitude, df[i].longitude)
           <= q.max_distance
    /\ q.brand # <<>> => BrandMatch(df[i].name, q)
    /\ NoNumericToken(df[i].price)

\* the frame holds row i of the table, or a row equal to it in every column
RowIn(frame, i) == \E r \in Range(frame) : df[r.idx] = df[i]

\* C19 as stated: a row with missing or non-numeric latitude or longitude
\* never appears in the result, whatever its price; a row with usable
\* in-radius coordinates and unparseable price text is not dropped for that
\* reason: in a mode without a price cap it remains a candidate and is
\* returned when top-K is at least the number of candidates.
UnpricedRowAlwaysReturned ==
    pc = "ranked" =>
        \A i \in 1..Len(df) :
            /\ LacksCoordinates(i) => ~RowIn(ranked, i)
            /\ (q.mode # "budget" /\ UnpricedInRadius(i)) =>
                  /\ outcome = "ok"
                  /\ RowIn(filtered, i)
                  /\ top_k >= Len(filtered) => RowIn(ranked, i)

\* C19 (amended): a row lacking a coordinate never appears in the result;
\* in a mode without a price cap an in-radius row with an unreadable price
\* remains a candidate and, when top-K is at least the number of
\* candidates, is returned unless the result holds another row with the
\* same name and address, kept in its place by the deduplication.
UnpricedRowReturnedUnlessDuplicate ==
    pc = "ranked" =>
        \A i \in 1..Len(df) :
            /\ LacksCoordinates(i) => ~RowIn(ranked, i)
            /\ (q.mode # "budget" /\ UnpricedInRadius(i)) =>
                  /\ outcome = "ok"
                  /\ RowIn(filtered, i)
                  /\ top_k >= Len(filtered) =>
                        \/ RowIn(ranked, i)
                        \/ \E r \in Range(ranked) :
                              df[r.idx] # df[i] /\ SameStation(r, df[i])

\* C19 witness: a call without a price cap over a table with a row that
\* lacks a coordinate returned an in-radius row with an unreadable price
UnpricedRowReturned ==
    /\ pc = "ranked"
    /\ q.mode # "budget"
    /\ \E i \in 1..Len(df) : LacksCoordinates(i)
    /\ \E i \in 1..Len(df) : UnpricedInRadius(i) /\ RowIn(ranked, i)

(***************************************************************************)
(* normalize.                                                              *)
(***************************************************************************)
AllEqual(series) == \A i, j \in 1..Len(series) : series[i] = series[j]

\* C20: for every input sequence of length n >= 1 whose values are all
\* equal, normalize returns a sequence of exactly n zeros (no division by
\* zero, no error).
NormalizeAllEqualIsZeros ==
    (pc = "normalized" /\ Len(args) >= 1 /\ AllEqual(args)) =>
        /\ outcome = "ok"
        /\ Len(ret) = Len(args)
        /\ \A i \in 1..Len(ret) : ~ret[i].nan /\ ret[i].num = 0

\* C20 witness: normalize returned for a column of several equal values
\* that are not zero
NormalizedEqualColumn ==
    /\ pc = "normalized"
    /\ Len(args) >= 2
    /\ AllEqual(args)
    /\ args[1] # 0

\* C21: normalize applied to the empty sequence returns the empty sequence
\* and raises no error.
NormalizeEmptyReturnsEmpty ==
    (pc = "normalized" /\ args = <<>>) => (outcome = "ok" /\ ret = <<>>)

\* the output of normalize is the min-max scaling of its input: the same
\* length, every value a number in [0, 1], the order of the input kept, the
\* minimum at 0 and, unless all values are equal, the maximum at 1
IsMinMaxScaling(series, out) ==
    /\ Len(out) = Len(series)
    /\ \A i \in 1..Len(out) :
          /\ ~out[i].nan
          /\ 0 <= out[i].num /\ out[i].num <= out[i].den
          /\ series[i] = SeqMin(series) => out[i].num = 0
          /\ (~AllEqual(series) /\ series[i] = SeqMax(series)) =>
                out[i].num = out[i].den
    /\ \A i, j \in 1..Len(out) :
          series[i] <= series[j] =>
              out[i].num * out[j].den <= out[j].num * out[i].den

\* on columns of finite values normalize is the min-max scaling
NormalizeFiniteIsMinMax ==
    (pc = "normalized" /\ Len(args) >= 1 /\ \A i \in 1..Len(args) : args[i] # Inf) =>
        (outcome = "ok" /\ IsMinMaxScaling(args, ret))

\* C22: for every non-empty sequence of prices or distances the scoring
\* engine can pass to normalize (prices may be the +infinity sentinel of an
\* unparseable price), the output has the same length, every output value
\* lies in [0, 1], and order is preserved: v_i <= v_j implies
\* out_i <= out_j, with the minimum mapped to 0 and, when not all values
\* are equal, the maximum mapped to 1.
NormalizeIsMinMax ==
    (pc = "normalized" /\ Len(args) >= 1) =>
        (outcome = "ok" /\ IsMinMaxScaling(args, ret))

(***************************************************************************)
(* Justifications.                                                         *)
(***************************************************************************)
HasReason(r, reason) == \E k \in 1..Len(r.why) : r.why[k] = reason

\* the 'Closest option' reason marks exactly the rows at the minimum distance
\* of the returned rows, the 'Cheapest' reason exactly the rows at their
\* minimum price when that price is finite
ReasonsDescribeReturnedRows ==
    Returned =>
        \A r \in Range(ranked) :
            /\ HasReason(r, "Closest option") <=>
                  (\A o \in Range(ranked) : r.distance <= o.distance)
            /\ r.price # Inf =>
                  (HasReason(r, "Cheapest within") <=>
                      (\A o \in Range(ranked) : r.price <= o.price))

\* C23: justifications describe the final cohort: a returned row's
\* justification contains the 'Cheapest' reason exactly when its price
\* equals the minimum price among the returned (post-filter, post-dedup,
\* post-truncation) rows, and contains 'Closest option' exactly when its
\* distance equals the minimum distance among the returned rows; stations
\* removed by a filter or by top-K truncation never influence any
\* justification.
JustificationsDescribeFinalCohort ==
    Returned =>
        \A r \in Range(ranked) :
            /\ HasReason(r, "Cheapest within") <=>
                  (\A o \in Range(ranked) : r.price <= o.price)
            /\ HasReason(r, "Closest option") <=>
                  (\A o \in Range(ranked) : r.distance <= o.distance)

(***************************************************************************)
(* The /recommend endpoint (api_main.py lines 35-58) serving MaxCalls      *)
(* requests at once over the station table of CSV_PATH (df).  Each         *)
(* request runs run_from_payload, ensure_unique_ids, the write of          *)
(* OUT_JSON_PATH and the return; the steps of different requests           *)
(* interleave in any order.  run_from_payload is not under src/: it is     *)
(* taken to build the Query with _build_query, to load the table and to    *)
(* return the rows of rank_stations as items, an exit of _build_query      *)
(* leaving it unchanged.                                                   *)
(***************************************************************************)
StartsWith(text, prefix) ==
    Len(text) >= Len(prefix) /\ SubSeq(text, 1, Len(prefix)) = prefix

\* the texts of the SystemExit messages (their first words)
ExitMessage(error) ==
    CASE error = "Invalid mode" -> <<"I","n","v","a","l","i","d"," ","m","o","d","e",".">>
      [] error = "Invalid priority" ->
            <<"I","n","v","a","l","i","d"," ","p","r","i","o","r","i","t","y",".">>
      [] error = "Latitude must be in range" ->
            <<"L","a","t","i","t","u","d","e"," ","m","u","s","t">>
      [] error = "Longitude must be in range" ->
            <<"L","o","n","g","i","t","u","d","e"," ","m","u","s","t">>
      [] error = "Top must be >= 1." -> <<"T","o","p"," ","m","u","s","t">>
      [] OTHER -> <<"J","S","O","N"," ","m","u","s","t"," ","i","n","c","l","u","d","e">>

ServePayload(mode, priority, location, scale, brand, top) ==
    [mode |-> mode, priority |-> priority, location |-> location, scale |-> scale,
     max_distance |-> 30, brand |-> brand, top |-> top]

\* two well-formed requests with different answers, and requests with an
\* unknown mode, a latitude out of range, and no location
ServePayloads ==
    {ServePayload(TextOf.emergency, TextOf.balanced, <<UserLat, UserLon>>, <<>>, NoBrand, 2),
     ServePayload(TextOf.budget, TextOf.cheapest, <<UserLat, UserLon>>, <<40>>, NoBrand, 1),
     ServePayload(<<"e","c","o">>, TextOf.balanced, <<UserLat, UserLon>>, <<>>, NoBrand, 2),
     ServePayload(TextOf.emergency, TextOf.balanced, <<LatLimit + 1, UserLon>>, <<>>, NoBrand, 2),
     ServePayload(TextOf.emergency, TextOf.balanced, <<>>, <<>>, NoBrand, 2)}

Received(payload) ==
    [payload |-> payload, pc |-> "received", query |-> NoQuery, top |-> 0, out |-> <<>>,
     results |-> <<>>, detail |-> <<>>, status |-> 0, body |-> <<>>]

\* the query of a payload, or the exit that rejects it
QueryOfPayload(p) ==
    IF p.location = <<>> THEN [ok |-> FALSE, error |-> "JSON must include"]
    ELSE LET b == _build_query(p.location[1], p.location[2], p.mode, p.scale,
                               p.max_distance, p.priority, p.brand)
         IN  IF b.ok /\ p.top < 1 THEN [ok |-> FALSE, error |-> "Top must be >= 1."]
             ELSE b

\* the rows of a ranked frame as result items
ItemsOf(frame) ==
    [k \in 1..Len(frame) |->
        [id |-> Strip(Lower(frame[k].name)) \o <<"|">> \o Strip(Lower(frame[k].address))]]

\* what a request returns when it is served alone
ServedAlone(p, table) ==
    LET b == QueryOfPayload(p)
    IN  ensure_unique_ids(ItemsOf(rank_stations(table, b.query, p.top).ranked))

\* the response read back from the results file
ResponseBodyFromFile(c, file) == file.content

\* line 58: return results
ResponseBody(c, file) == c.results

\* lines 49-53
StatusOfExit(detail) == IF StartsWith(detail, <<"4","0","0">>) THEN 400 ELSE 500

InitServe ==
    /\ pc = "serve"
    /\ df \in MainTables
    /\ calls \in [1..MaxCalls -> {Received(p) : p \in ServePayloads}]
    /\ results_file = NoFile
    /\ args = <<>> /\ ret = <<>> /\ q = NoQuery /\ top_k = 1 /\ items = <<>>
    /\ filtered = <<>> /\ ranked = <<>> /\ stages = <<>> /\ outcome = "none"

Unserved == <<pc, args, ret, df, q, top_k, filtered, ranked, stages, outcome, items>>

\* run_from_payload: the request is validated
BuildQuery(i) ==
    /\ calls[i].pc = "received"
    /\ \E b \in {QueryOfPayload(calls[i].payload)} :
          calls' = [calls EXCEPT ![i] =
              IF b.ok
              THEN [@ EXCEPT !.pc = "query", !.query = b.query, !.top = calls[i].payload.top]
              ELSE [@ EXCEPT !.pc = "raised", !.detail = ExitMessage(b.error)]]
    /\ UNCHANGED <<results_file, Unserved>>

\* run_from_payload: the table is loaded; rank_stations line 126 copies it
ReadTable(i) ==
    /\ calls[i].pc = "query"
    /\ calls' = [calls EXCEPT ![i] = [@ EXCEPT !.pc = "loaded", !.out = df]]
    /\ UNCHANGED <<results_file, Unserved>>

\* run_from_payload: rank_stations works on its copy; its rows are the results
Rank(i) ==
    /\ calls[i].pc = "loaded"
    /\ calls' = [calls EXCEPT ![i] = [@ EXCEPT !.pc = "ranked",
                    !.results = ItemsOf(rank_stations(calls[i].out, calls[i].query,
                                                      calls[i].top).ranked)]]
    /\ UNCHANGED <<results_file, Unserved>>

\* line 46
UniqueIds(i) ==
    /\ calls[i].pc = "ranked"
    /\ calls' = [calls EXCEPT ![i] = [@ EXCEPT !.pc = "unique",
                    !.results = ensure_unique_ids(calls[i].results)]]
    /\ UNCHANGED <<results_file, Unserved>>

\* lines 47-48
WriteResults(i) ==
    /\ calls[i].pc = "unique"
    /\ results_file' = [writer |-> i, content |-> calls[i].results]
    /\ calls' = [calls EXCEPT ![i] = [@ EXCEPT !.pc = "written"]]
    /\ UNCHANGED Unserved

\* line 58
Respond(i) ==
    /\ calls[i].pc = "written"
    /\ calls' = [calls EXCEPT ![i] = [@ EXCEPT !.pc = "done", !.status = 200,
                    !.body = ResponseBody(calls[i], results_file)]]
    /\ UNCHANGED <<results_file, Unserved>>

\* lines 49-53: except SystemExit
HandleExit(i) ==
    /\ calls[i].pc = "raised"
    /\ calls' = [calls EXCEPT ![i] = [@ EXCEPT !.pc = "done",
                    !.status = StatusOfExit(calls[i].detail)]]
    /\ UNCHANGED <<results_file, Unserved>>

NextServe ==
    \/ \E i \in 1..Len(calls) : BuildQuery(i)
    \/ \E i \in 1..Len(calls) : ReadTable(i)
    \/ \E i \in 1..Len(calls) : Rank(i)
    \/ \E i \in 1..Len(calls) : UniqueIds(i)
    \/ \E i \in 1..Len(calls) : WriteResults(i)
    \/ \E i \in 1..Len(calls) : Respond(i)
    \/ \E i \in 1..Len(calls) : HandleExit(i)

SpecServe == InitServe /\ [][NextServe]_vars

Malformed(i) == ~QueryOfPayload(calls[i].payload).ok

\* a rejected request is answered with an error status, never with results,
\* and never writes the results file
RejectedRequestLeavesNoResult ==
    \A i \in 1..Len(calls) :
        Malformed(i) =>
            /\ calls[i].pc \in {"received", "raised", "done"}
            /\ calls[i].results = <<>>
            /\ calls[i].body = <<>>
            /\ results_file.writer # i
            /\ calls[i].pc = "done" => calls[i].status \in {400, 500}

RequestAccepted(a) ==
    /\ ~ArgparseRejects(a)
    /\ a.location # <<>>
    /\ ~InvalidRequest(a)
    /\ a.top >= 1

\* C26: if the loaded station table lacks any of the columns name, address,
\* price, latitude, longitude, the run ends with a configuration error
\* naming the missing column before rank_stations is invoked; rank_stations
\* is only ever called on a table that has all five columns.
MissingColumnIsConfigurationError ==
    MainReturned =>
        /\ (RequestAccepted(args) /\ args.columns # AllColumns) =>
              /\ pc = "exit"
              /\ outcome = "exit"
              /\ df = args.csv
              /\ Len(ret) = 1
              /\ ret[1] \in AllColumns \ args.columns
              /\ stages = <<>>
              /\ ranked = <<>>
        /\ stages # <<>> => args.columns = AllColumns

\* C26 witness: a run over a station file without its price and longitude
\* columns ended with the error naming the price column
MissingPriceColumnNamed ==
    /\ pc = "exit"
    /\ RequestAccepted(args)
    /\ args.columns = AllColumns \ {"price", "longitude"}
    /\ args.csv # <<>>
    /\ ret = <<"price">>

(***************************************************************************)
(* The priority nudge of the weights.                                      *)
(***************************************************************************)
\* the profile weights_for returns for the mode at hand and priority 'balanced'
BalancedProfile ==
    [exact |-> weights_for(args.mode, TextOf.balanced),
     f64 |-> weights_for_f64(args.mode, TextOf.balanced)]

\* weight k of profile a is strictly larger than weight k of profile b, in
\* exact arithmetic and in the floats returned
WeightLarger(a, b, k) ==
    /\ a.exact[k] * b.exact.den > b.exact[k] * a.exact.den
    /\ FLess(b.f64[k], a.f64[k])

\* C27: for every mode, the renormalised weight profile for priority
\* 'cheapest' has a strictly larger price weight and a strictly smaller
\* distance weight than the profile for priority 'balanced' of the same
\* mode, and the profile for priority 'closest' has a strictly larger
\* distance weight and a strictly smaller price weight than the 'balanced'
\* profile.
PriorityNudgesWeights ==
    pc = "weighed" =>
        /\ Lower(args.priority) = TextOf.cheapest =>
              /\ WeightLarger(ret, BalancedProfile, "price")
              /\ WeightLarger(BalancedProfile, ret, "distance")
        /\ Lower(args.priority) = TextOf.closest =>
              /\ WeightLarger(ret, BalancedProfile, "distance")
              /\ WeightLarger(BalancedProfile, ret, "price")

\* C27 witness: weights_for returned the profile of comfort mode for the
\* priority 'closest'
ComfortClosestWeighed ==
    /\ pc = "weighed"
    /\ args.mode = TextOf.comfort
    /\ args.priority = TextOf.closest

(***************************************************************************)
(* Rows outside the candidate set.                                         *)
(***************************************************************************)
\* row i of the table fails a hard filter of the query: it lacks a
\* coordinate, lies beyond max_distance, does not match the requested brand
\* or, in budget mode, is priced above the cap
ExcludedByHardFilter(i) ==
    \/ LacksCoordinates(i)
    \/ haversine_miles(q.user_lat, q.user_lon, df[i].latitude, df[i].longitude)
           > q.max_distance
    \/ q.brand # <<>> /\ ~BrandMatch(df[i].name, q)
    \/ q.mode = "budget" /\ parse_price(df[i].price) > q.scale

\* the table without its row i
WithoutRow(table, i) == SubSeq(table, 1, i - 1) \o SubSeq(table, i + 1, Len(table))

\* a returned row as the caller sees it: every column but the row index
Shown(r) == [f \in DOMAIN r \ {"idx"} |-> r[f]]

ShownRows(frame) == [k \in 1..Len(frame) |-> Shown(frame[k])]

\* C28: scores are relative to the candidates actually compared: adding to
\* the station table a row that is excluded by a hard filter (for example a
\* station beyond max_distance, or one failing the brand filter) leaves the
\* returned list unchanged - the same rows, in the same order, with the
\* same scores and justifications.
ExcludedRowLeavesResultUnchanged ==
    (pc = "ranked" /\ stages # <<>>) =>
        \A i \in 1..Len(df) :
            ExcludedByHardFilter(i) =>
                LET alone == rank_stations(WithoutRow(df, i), q, top_k)
                IN  /\ alone.outcome = outcome
                    /\ ShownRows(alone.ranked) = ShownRows(ranked)

\* C28 witness: a call over a table with a cheaper station beyond
\* max_distance returned a row that would not be the cheapest of the table
FartherCheaperRowExcluded ==
    /\ Returned
    /\ \E i \in 1..Len(df), r \in Range(ranked) :
          /\ ~LacksCoordinates(i)
          /\ haversine_miles(q.user_lat, q.user_lon, df[i].latitude, df[i].longitude)
                 > q.max_distance
          /\ parse_price(df[i].price) < r.price
          /\ HasReason(r, "Cheapest within")

(***************************************************************************)
(* One row with an unreadable price among the candidates.                  *)
(***************************************************************************)
\* row i of the table is the one candidate whose price is unreadable
OnlyUnpricedCandidate(i) ==
    /\ UnpricedInRadius(i)
    /\ \A j \in 1..Len(df) : UnpricedInRadius(j) => j = i

\* the rows of the table a frame computed from it holds, in the frame's order
TableRows(frame, table) == [k \in 1..Len(frame) |-> table[frame[k].idx]]

\* the rows that two sequences share stand in the same order in both
SameRelativeOrder(s, u) ==
    \A a, b \in 1..Len(s) : \A c, d \in 1..Len(u) :
        (a < b /\ s[a] = u[c] /\ s[b] = u[d]) => c < d

\* whatever the unreadable price does, the call returns a result
BadPriceCallReturns ==
    (pc = "ranked" /\ q.mode # "budget") =>
        \A i \in 1..Len(df) :
            OnlyUnpricedCandidate(i) => (outcome = "ok" /\ ranked # <<>>)

\* C29: in a mode without a price cap, one candidate row with an
\* unparseable price degrades only that row: the call still returns a
\* result, the bad-price row is ranked after every parseable-price
\* candidate, and the relative order of the other returned rows is the same
\* as in the ranking of the same table without the bad-price row.
BadPriceDegradesOnlyItsRow ==
    (pc = "ranked" /\ q.mode # "budget") =>
        \A i \in 1..Len(df) :
            OnlyUnpricedCandidate(i) =>
                /\ outcome = "ok"
                /\ ranked # <<>>
                /\ \A a, b \in 1..Len(ranked) :
                      (ranked[a].idx = i /\ ranked[b].price # Inf) => b < a
                /\ SameRelativeOrder(
                      TableRows(SelectSeq(ranked, LAMBDA r : r.idx # i), df),
                      TableRows(rank_stations(WithoutRow(df, i), q, top_k).ranked,
                                WithoutRow(df, i)))

(***************************************************************************)
(* The reasons of a returned row.                                          *)
(***************************************************************************)
\* the specific conditions that apply to a returned row, in their order:
\* price at the minimum of the returned rows, distance at their minimum,
\* within the budget in budget mode, the requested brand matched,
\* emergency with urgency >= 0.7 within 1 mile of the closest row
ApplicableReasons(r) ==
    LET min_price == SeqMin(Column(ranked, "price"))
        min_dist == SeqMin(Column(ranked, "distance"))
    IN  (IF r.price = min_price THEN <<"Cheapest within">> ELSE <<>>)
        \o (IF r.distance = min_dist THEN <<"Closest option">> ELSE <<>>)
        \o (IF q.mode = "budget" /\ r.price <= q.scale
            THEN <<"Within budget">> ELSE <<>>)
        \o (IF q.brand # <<>> /\ r.brand_match
            THEN <<"Matches preferred brand">> ELSE <<>>)
        \o (IF q.mode = "emergency" /\ q.scale >= 7
               /\ r.distance <= min_dist + 10 /\ r.distance <= q.max_distance
            THEN <<"Good when urgency is high">> ELSE <<>>)

ExpectedJustification(r) ==
    IF ApplicableReasons(r) = <<>>
    THEN <<"Good balance of price + distance">>
    ELSE ApplicableReasons(r)

\* when some returned row has a readable price, every returned row carries
\* exactly the applicable reasons, or the generic message when there is none
JustificationOfPricedCohort ==
    (Returned /\ \E o \in Range(ranked) : o.price # Inf) =>
        \A r \in Range(ranked) : r.why # <<>> /\ r.why = ExpectedJustification(r)

\* C30: every returned row carries a non-empty justification: the generic
\* 'Good balance of price + distance' message is emitted exactly when none
\* of the specific conditions (cohort-minimum price, cohort-minimum
\* distance, within budget in budget mode, matches requested brand, high
\* urgency >= 0.7 and within 1 mile of the closest) applies to the row, and
\* otherwise the applicable reasons are joined in that fixed order.
JustificationIsApplicableReasons ==
    Returned =>
        \A r \in Range(ranked) : r.why # <<>> /\ r.why = ExpectedJustification(r)

====
